---- MODULE Spec2Model ----
(***************************************************************************)
(* Brazilian phone lookup (api-python/tel.py): PhoneValidator,             *)
(* CacheManager and PhoneLookup, with the TTL cache kept as one JSON file  *)
(* per looked-up string under CACHE_DIR.                                   *)
(*                                                                         *)
(* Text is a sequence of one-character strings, so that len(), indexing,   *)
(* slicing and the regular expressions are computed and not assumed.       *)
(* Time is counted in half seconds: time.time() is a float, int() of it    *)
(* drops the fraction.                                                     *)
(***************************************************************************)
EXTENDS Integers, Sequences, FiniteSets, TLC

VARIABLES
    now,        \* time.time(), in half seconds
    cache,      \* CACHE_DIR: cache key -> content of <key>.json
    last,       \* the lookup call that returned last (observer)
    returned,   \* phone -> record its latest lookup returned since the last clear (observer)
    cleared,    \* phones that had an entry when the cache was last cleared (observer)
    ncalls,     \* lookups made
    nticks,     \* clock advances made
    input,      \* the string handed to PhoneValidator
    normalized, \* normalize(input), once computed
    validated,  \* validate(input), once computed
    pc,         \* worker -> position inside lookup
    loc         \* worker -> locals of its lookup call

vars == <<now, cache, last, returned, cleared, ncalls, nticks,
          input, normalized, validated, pc, loc>>

-----------------------------------------------------------------------------
(* Bounds of the model *)

\* lookups made in one behaviour of the sequential service
MaxCalls == 3
\* clock advances in one behaviour
MaxTicks == 2
\* lookups and clock advances in one session on a single input string
MaxSessionCalls == 2
MaxSessionTicks == 1
\* lookups and clock advances in one behaviour of the service on a failing
\* file system
MaxFaultCalls == 2
MaxFaultTicks == 1
\* lookups entered and clock advances in one behaviour of the concurrent
\* service
MaxConcCalls == 3
MaxConcTicks == 1
\* digits following the third digit in a generated validator input, at most
MaxTail == 9

-----------------------------------------------------------------------------
(* Python values *)

\* None; no str, dict or PhoneInfo equals it
None == [none |-> TRUE]

\* str.isdigit for one character as \d and \D of the re module see it: the
\* ASCII digits and every other Unicode decimal digit (here ARABIC-INDIC
\* DIGIT THREE, written "U+0663")
AsciiDigits == {"0", "1", "2", "3", "4", "5", "6", "7", "8", "9"}

UnicodeDigits == AsciiDigits \cup {"U+0663"}

IsDigit(c) == c \in UnicodeDigits

\* int() of one decimal digit
DigitVal(c) ==
    CASE c = "0" -> 0 [] c = "1" -> 1 [] c = "2" -> 2 [] c = "3" -> 3
      [] c = "4" -> 4 [] c = "5" -> 5 [] c = "6" -> 6 [] c = "7" -> 7
      [] c = "8" -> 8 [] c = "9" -> 9 [] c = "U+0663" -> 3

RECURSIVE ToInt(_)
\* int(s) of a non-empty digit string
ToInt(s) ==
    IF Len(s) = 0 THEN 0
    ELSE 10 * ToInt(SubSeq(s, 1, Len(s) - 1)) + DigitVal(s[Len(s)])

Chars(s) == {s[i] : i \in 1..Len(s)}

\* s.startswith(p)
StartsWith(s, p) == Len(s) >= Len(p) /\ SubSeq(s, 1, Len(p)) = p

-----------------------------------------------------------------------------
(* PhoneValidator *)

\* The three regular expressions, each ^(\d{g1})(L\d{g2-1})(\d{g3})$ with L
\* the class of the second group's first character.
PATTERNS ==
    [mobile   |-> [g1 |-> 2, lead |-> {"9"}, g2 |-> 5, g3 |-> 4],
     landline |-> [g1 |-> 2, lead |-> {"2", "3", "4", "5"}, g2 |-> 4, g3 |-> 4],
     short    |-> [g1 |-> 2, lead |-> {"2", "3", "4", "5"}, g2 |-> 3, g3 |-> 4]]

\* re.match(pattern, s): the three groups, or None. Anchored at both ends, so
\* the string has exactly g1+g2+g3 characters.
re_match(p, s) ==
    IF /\ Len(s) = p.g1 + p.g2 + p.g3
       /\ \A i \in 1..Len(s) : IsDigit(s[i])
       /\ s[p.g1 + 1] \in p.lead
    THEN <<SubSeq(s, 1, p.g1),
           SubSeq(s, p.g1 + 1, p.g1 + p.g2),
           SubSeq(s, p.g1 + p.g2 + 1, Len(s))>>
    ELSE None

\* re.sub(r'\D', '', phone)
StripNonDigits(phone) == SelectSeq(phone, IsDigit)

normalize_strip12(phone) ==
    LET digits == StripNonDigits(phone)
        d2 == IF Len(digits) \in {11, 12} /\ digits[1] = "0" THEN Tail(digits) ELSE digits
    IN  IF 10 <= Len(d2) /\ Len(d2) <= 11 THEN d2 ELSE None

normalize(phone) ==
    LET digits == StripNonDigits(phone)
        d2 == IF Len(digits) = 11 /\ digits[1] = "0" THEN Tail(digits) ELSE digits
    IN  IF 10 <= Len(d2) /\ Len(d2) <= 11 THEN d2 ELSE None

\* the tuple (valido, tipo, partes) validate returns
Validation(v, t, p) == [valido |-> v, tipo |-> t, partes |-> p]

EmptyDict == <<>>

validate(phone) ==
    LET digits == normalize(phone)
        unrecognized == Validation(FALSE, "Formato não reconhecido", EmptyDict)
    IN  IF digits = None THEN Validation(FALSE, "Formato inválido", EmptyDict)
        ELSE IF Len(digits) = 11 /\ digits[3] = "9" THEN
            LET match == re_match(PATTERNS.mobile, digits)
            IN  IF match # None
                THEN Validation(TRUE, "MÓVEL",
                        [ddd |-> match[1], prefixo |-> Tail(match[2]),
                         sufixo |-> match[3], raw_prefixo |-> match[2]])
                ELSE unrecognized
        ELSE IF Len(digits) = 11 THEN
            LET match == re_match(PATTERNS.landline, digits)
            IN  IF match # None
                THEN Validation(TRUE, "FIXO",
                        [ddd |-> match[1], prefixo |-> match[2], sufixo |-> match[3]])
                ELSE unrecognized
        ELSE IF Len(digits) = 10 THEN
            LET match == re_match(PATTERNS.short, digits)
            IN  IF match # None
                THEN Validation(TRUE, "FIXO",
                        [ddd |-> match[1], prefixo |-> match[2], sufixo |-> match[3]])
                ELSE unrecognized
        ELSE unrecognized

-----------------------------------------------------------------------------
(* PhoneLookup tables *)

\* "regiao" is kept split at its '/' characters: "São Paulo/SP" is
\* <<"São Paulo", "SP">>, and regiao.split('/')[0] its first element.
DDD_DATABASE ==
    <<"1","1">> :> [estado |-> "SP", regiao |-> <<"São Paulo", "SP">>] @@
    <<"1","2">> :> [estado |-> "SP", regiao |-> <<"São José dos Campos", "SP">>] @@
    <<"1","3">> :> [estado |-> "SP", regiao |-> <<"Santos", "SP">>] @@
    <<"1","4">> :> [estado |-> "SP", regiao |-> <<"Bauru", "SP">>] @@
    <<"1","5">> :> [estado |-> "SP", regiao |-> <<"Sorocaba", "SP">>] @@
    <<"1","6">> :> [estado |-> "SP", regiao |-> <<"Ribeirão Preto", "SP">>] @@
    <<"1","7">> :> [estado |-> "SP", regiao |-> <<"São José do Rio Preto", "SP">>] @@
    <<"1","8">> :> [estado |-> "SP", regiao |-> <<"Presidente Prudente", "SP">>] @@
    <<"1","9">> :> [estado |-> "SP", regiao |-> <<"Campinas", "SP">>] @@
    <<"2","1">> :> [estado |-> "RJ", regiao |-> <<"Rio de Janeiro", "RJ">>] @@
    <<"2","2">> :> [estado |-> "RJ", regiao |-> <<"Campos dos Goytacazes", "RJ">>] @@
    <<"2","4">> :> [estado |-> "RJ", regiao |-> <<"Volta Redonda", "RJ">>] @@
    <<"2","7">> :> [estado |-> "ES", regiao |-> <<"Vitória", "ES">>] @@
    <<"2","8">> :> [estado |-> "ES", regiao |-> <<"Cachoeiro de Itapemirim", "ES">>] @@
    <<"3","1">> :> [estado |-> "MG", regiao |-> <<"Belo Horizonte", "MG">>] @@
    <<"3","2">> :> [estado |-> "MG", regiao |-> <<"Juiz de Fora", "MG">>] @@
    <<"3","3">> :> [estado |-> "MG", regiao |-> <<"Governador Valadares", "MG">>] @@
    <<"3","4">> :> [estado |-> "MG", regiao |-> <<"Uberlândia", "MG">>] @@
    <<"3","5">> :> [estado |-> "MG", regiao |-> <<"Poços de Caldas", "MG">>] @@
    <<"3","7">> :> [estado |-> "MG", regiao |-> <<"Divinópolis", "MG">>] @@
    <<"3","8">> :> [estado |-> "MG", regiao |-> <<"Montes Claros", "MG">>] @@
    <<"4","1">> :> [estado |-> "PR", regiao |-> <<"Curitiba", "PR">>] @@
    <<"4","2">> :> [estado |-> "PR", regiao |-> <<"Ponta Grossa", "PR">>] @@
    <<"4","3">> :> [estado |-> "PR", regiao |-> <<"Londrina", "PR">>] @@
    <<"4","4">> :> [estado |-> "PR", regiao |-> <<"Maringá", "PR">>] @@
    <<"4","5">> :> [estado |-> "PR", regiao |-> <<"Foz do Iguaçu", "PR">>] @@
    <<"4","6">> :> [estado |-> "PR", regiao |-> <<"Francisco Beltrão", "PR">>] @@
    <<"4","7">> :> [estado |-> "SC", regiao |-> <<"Joinville", "SC">>] @@
    <<"4","8">> :> [estado |-> "SC", regiao |-> <<"Florianópolis", "SC">>] @@
    <<"4","9">> :> [estado |-> "SC", regiao |-> <<"Chapecó", "SC">>] @@
    <<"5","1">> :> [estado |-> "RS", regiao |-> <<"Porto Alegre", "RS">>] @@
    <<"5","3">> :> [estado |-> "RS", regiao |-> <<"Pelotas", "RS">>] @@
    <<"5","4">> :> [estado |-> "RS", regiao |-> <<"Caxias do Sul", "RS">>] @@
    <<"5","5">> :> [estado |-> "RS", regiao |-> <<"Santa Maria", "RS">>] @@
    <<"6","1">> :> [estado |-> "DF", regiao |-> <<"Brasília", "DF">>] @@
    <<"6","2">> :> [estado |-> "GO", regiao |-> <<"Goiânia", "GO">>] @@
    <<"6","3">> :> [estado |-> "TO", regiao |-> <<"Palmas", "TO">>] @@
    <<"6","4">> :> [estado |-> "GO", regiao |-> <<"Rio Verde", "GO">>] @@
    <<"6","5">> :> [estado |-> "MT", regiao |-> <<"Cuiabá", "MT">>] @@
    <<"6","6">> :> [estado |-> "MT", regiao |-> <<"Rondonópolis", "MT">>] @@
    <<"6","7">> :> [estado |-> "MS", regiao |-> <<"Campo Grande", "MS">>] @@
    <<"6","8">> :> [estado |-> "AC", regiao |-> <<"Rio Branco", "AC">>] @@
    <<"6","9">> :> [estado |-> "RO", regiao |-> <<"Porto Velho", "RO">>] @@
    <<"7","1">> :> [estado |-> "BA", regiao |-> <<"Salvador", "BA">>] @@
    <<"7","3">> :> [estado |-> "BA", regiao |-> <<"Ilhéus", "BA">>] @@
    <<"7","4">> :> [estado |-> "BA", regiao |-> <<"Juazeiro", "BA">>] @@
    <<"7","5">> :> [estado |-> "BA", regiao |-> <<"Feira de Santana", "BA">>] @@
    <<"7","7">> :> [estado |-> "BA", regiao |-> <<"Barreiras", "BA">>] @@
    <<"7","9">> :> [estado |-> "SE", regiao |-> <<"Aracaju", "SE">>] @@
    <<"8","1">> :> [estado |-> "PE", regiao |-> <<"Recife", "PE">>] @@
    <<"8","2">> :> [estado |-> "AL", regiao |-> <<"Maceió", "AL">>] @@
    <<"8","3">> :> [estado |-> "PB", regiao |-> <<"João Pessoa", "PB">>] @@
    <<"8","4">> :> [estado |-> "RN", regiao |-> <<"Natal", "RN">>] @@
    <<"8","5">> :> [estado |-> "CE", regiao |-> <<"Fortaleza", "CE">>] @@
    <<"8","6">> :> [estado |-> "PI", regiao |-> <<"Teresina", "PI">>] @@
    <<"8","7">> :> [estado |-> "PE", regiao |-> <<"Petrolina", "PE">>] @@
    <<"8","8">> :> [estado |-> "CE", regiao |-> <<"Juazeiro do Norte", "CE">>] @@
    <<"8","9">> :> [estado |-> "PI", regiao |-> <<"Picos", "PI">>] @@
    <<"9","1">> :> [estado |-> "PA", regiao |-> <<"Belém", "PA">>] @@
    <<"9","2">> :> [estado |-> "AM", regiao |-> <<"Manaus", "AM">>] @@
    <<"9","3">> :> [estado |-> "PA", regiao |-> <<"Santarém", "PA">>] @@
    <<"9","4">> :> [estado |-> "PA", regiao |-> <<"Marabá", "PA">>] @@
    <<"9","5">> :> [estado |-> "RR", regiao |-> <<"Boa Vista", "RR">>] @@
    <<"9","6">> :> [estado |-> "AP", regiao |-> <<"Macapá", "AP">>] @@
    <<"9","7">> :> [estado |-> "AM", regiao |-> <<"Coari", "AM">>] @@
    <<"9","8">> :> [estado |-> "MA", regiao |-> <<"São Luís", "MA">>] @@
    <<"9","9">> :> [estado |-> "MA", regiao |-> <<"Imperatriz", "MA">>]

DDD_DEFAULT == [estado |-> "??", regiao |-> <<"Desconhecida">>]

ddd_get_blank_default(ddd) ==
    IF ddd \in DOMAIN DDD_DATABASE THEN DDD_DATABASE[ddd]
    ELSE [estado |-> "", regiao |-> <<"">>]

\* DDD_DATABASE.get(ddd, {"estado": "??", "regiao": "Desconhecida"})
ddd_get(ddd) == IF ddd \in DOMAIN DDD_DATABASE THEN DDD_DATABASE[ddd] ELSE DDD_DEFAULT

\* ddd -> first character -> the carriers in dict order, each with its list
\* of prefix specifications ("96", or a range "30-39")
OPERATOR_PREFIXES ==
    <<"1","1">> :> (
        "9" :> << <<"VIVO",  << <<"9","6">>, <<"9","7">>, <<"9","8">>, <<"9","9">> >> >>,
                  <<"TIM",   << <<"9","4">>, <<"9","5">> >> >>,
                  <<"CLARO", << <<"9","2">>, <<"9","3">> >> >>,
                  <<"OI",    << <<"9","1">> >> >> >> @@
        "3" :> << <<"VIVO",  << <<"3","0","-","3","9">> >> >>,
                  <<"TIM",   << <<"2","0","-","2","9">> >> >>,
                  <<"CLARO", << <<"1","0","-","1","9">> >> >> >>) @@
    <<"8","3">> :> (
        "9" :> << <<"VIVO",  << <<"9","6">>, <<"9","7">> >> >>,
                  <<"TIM",   << <<"9","4">>, <<"9","5">> >> >>,
                  <<"CLARO", << <<"9","2">>, <<"9","3">> >> >>,
                  <<"OI",    << <<"9","1">> >> >> >> @@
        "3" :> << <<"VIVO",  << <<"3","2","-","3","5">> >> >>,
                  <<"TIM",   << <<"2","1","-","2","5">> >> >>,
                  <<"CLARO", << <<"1","1","-","1","5">> >> >> >>)

\* one prefix specification against prefixo
PrefMatches(pref, prefixo) ==
    IF "-" \in Chars(pref)
    THEN LET dash == CHOOSE i \in 1..Len(pref) : pref[i] = "-"
             inicio == ToInt(SubSeq(pref, 1, dash - 1))
             fim == ToInt(SubSeq(pref, dash + 1, Len(pref)))
             n == ToInt(SubSeq(prefixo, 1, 2))
         IN  inicio <= n /\ n <= fim
    ELSE StartsWith(prefixo, pref)

get_operator_by_prefix(ddd, prefixo, tipo) ==
    IF ddd \notin DOMAIN OPERATOR_PREFIXES THEN "Desconhecida"
    ELSE LET ddd_data == OPERATOR_PREFIXES[ddd]
             primeira_part == IF Len(prefixo) > 0 THEN prefixo[1] ELSE ""
         IN  IF tipo = "MÓVEL" /\ primeira_part \in DOMAIN ddd_data
             THEN LET operadores == ddd_data[primeira_part]
                      hits == {i \in 1..Len(operadores) :
                                 \E j \in 1..Len(operadores[i][2]) :
                                     PrefMatches(operadores[i][2][j], prefixo)}
                  IN  IF hits = {} THEN "Desconhecida"
                      ELSE operadores[CHOOSE i \in hits : \A k \in hits : i <= k][1]
             ELSE "Desconhecida"

-----------------------------------------------------------------------------
(* PhoneInfo *)

CACHE_TTL == 86400

PhoneInfoFields ==
    {"numero", "ddd", "prefixo", "sufixo", "operadora", "cidade", "uf", "tipo",
     "latitude", "longitude", "consulta_ts", "valido", "portabilidade"}

PhoneInfoRequired == {"numero", "ddd", "prefixo", "sufixo"}

PhoneInfoDefaults ==
    [operadora |-> "Desconhecida", cidade |-> "Desconhecida", uf |-> "??",
     tipo |-> "Desconhecido", latitude |-> None, longitude |-> None,
     consulta_ts |-> 0, valido |-> FALSE, portabilidade |-> FALSE]

TypeError == [exc |-> "TypeError"]

\* PhoneInfo(**kw): the dataclass constructor. An unexpected keyword or a
\* missing positional field raises TypeError.
PhoneInfo(kw) ==
    IF DOMAIN kw \subseteq PhoneInfoFields /\ PhoneInfoRequired \subseteq DOMAIN kw
    THEN kw @@ PhoneInfoDefaults
    ELSE TypeError

\* dataclasses.asdict: the dict of the thirteen fields
asdict(info) == [f \in PhoneInfoFields |-> info[f]]

\* d.get(k, default)
dict_get(d, k, default) == IF k \in DOMAIN d THEN d[k] ELSE default

\* bool(x) for an Optional[Dict]
Truthy(x) == x # None /\ DOMAIN x # {}

-----------------------------------------------------------------------------
(* The portability API *)

\* What requests.get does: it raises (timeout, no connection), or answers
\* with a status and a body; body.json is "object" (value: the dict),
\* "array" (JSON, but no dict) or "invalid" (response.json() raises).
HttpRaises == [raises |-> TRUE, status_code |-> 0, body |-> [json |-> "invalid", value |-> EmptyDict]]

HttpStatus(code, kind, value) ==
    [raises |-> FALSE, status_code |-> code, body |-> [json |-> kind, value |-> value]]

HttpOutcomes ==
    {HttpRaises,
     HttpStatus(404, "object", EmptyDict),
     HttpStatus(200, "invalid", EmptyDict),
     HttpStatus(200, "array", EmptyDict),
     HttpStatus(200, "object", EmptyDict),
     HttpStatus(200, "object",
        [operadora |-> "CLARO", cidade |-> "Recife", uf |-> "PE", portabilidade |-> TRUE])}

consulta_api_portabilidade(phone, http) ==
    IF http.raises THEN None
    ELSE IF http.status_code = 200
         THEN IF http.body.json = "object"
              THEN LET data == http.body.value
                   IN  [operadora |-> dict_get(data, "operadora", "Desconhecida"),
                        cidade |-> dict_get(data, "cidade", "Desconhecida"),
                        uf |-> dict_get(data, "uf", "??"),
                        portabilidade |-> dict_get(data, "portabilidade", FALSE)]
              ELSE None
         ELSE None

-----------------------------------------------------------------------------
(* CacheManager *)

\* a key that keeps the area code only
get_key_of_area(phone) == <<"md5">> \o SubSeq(phone, 1, 2)

\* hashlib.md5(phone.encode()).hexdigest(): one key per string, taken to be
\* free of collisions
get_key(phone) == <<"md5">> \o phone

\* A file of CACHE_DIR: a complete JSON document (kind "object" with the
\* dict, or "array"), or text json.load rejects (kind "torn": an empty,
\* truncated or overwritten-in-part file).
JsonDoc(data) == [kind |-> "object", value |-> data]

JsonArray == [kind |-> "array", value |-> EmptyDict]

TornFile == [kind |-> "torn", value |-> EmptyDict]

NoFiles == <<>>

\* What the file system does to one call: each flag is TRUE when that
\* system call succeeds.
IoOk == [open_read |-> TRUE, unlink |-> TRUE, open_write |-> TRUE, write |-> TRUE]

IoOutcomes == [open_read : BOOLEAN, unlink : BOOLEAN, open_write : BOOLEAN, write : BOOLEAN]

\* c without the file of key k
Unlink(c, k) == [x \in DOMAIN c \ {k} |-> c[x]]

\* time.time() - ts > CACHE_TTL, t in half seconds and ts in seconds
expired_at_ttl(t, ts) == t - 2 * ts >= 2 * CACHE_TTL

expired_never(t, ts) == FALSE

expired(t, ts) == t - 2 * ts > 2 * CACHE_TTL

\* CacheManager.load: the dict read, or None, and the directory it leaves
load(c, phone, t, io) ==
    LET k == get_key(phone)
    IN  IF k \notin DOMAIN c THEN [data |-> None, cache |-> c]
        ELSE IF ~io.open_read THEN [data |-> None, cache |-> c]
        ELSE IF c[k].kind # "object" THEN [data |-> None, cache |-> c]
        ELSE IF expired(t, dict_get(c[k].value, "consulta_ts", 0))
             THEN [data |-> None, cache |-> IF io.unlink THEN Unlink(c, k) ELSE c]
             ELSE [data |-> c[k].value, cache |-> c]

\* open(cache_file, 'w'): the file exists and is empty
Truncate(c, k) == (k :> TornFile) @@ c

\* CacheManager.save: the directory it leaves
save(c, phone, data, io) ==
    LET k == get_key(phone)
    IN  IF ~io.open_write THEN c
        ELSE IF ~io.write THEN Truncate(c, k)
        ELSE (k :> JsonDoc(data)) @@ c

\* main, --clear-cache: every *.json of CACHE_DIR unlinked
clear_keeps_one(c) ==
    IF DOMAIN c = {} THEN c
    ELSE LET k == CHOOSE k \in DOMAIN c : TRUE IN [x \in {k} |-> c[x]]

clear(c) == NoFiles

-----------------------------------------------------------------------------
(* PhoneLookup.lookup *)

\* One call of lookup, whole: what it returns (ret, or the exception that
\* leaves it), the outcome it ended in, the API calls it made, the
\* directory it leaves and the time it ends at. t is the time it starts,
\* http what the portability API does if asked, io what the file system
\* does, dur the time the API call takes.
Outcome(ret, path, api, c, t) ==
    [ret |-> ret, raised |-> ret = TypeError, path |-> path, api_calls |-> api,
     cache |-> c, t_end |-> t]

\* a record that keeps the API's defaults when the API gave nothing
compose_without_fallback(phone, v, api_data, t) ==
    LET partes == v.partes
        fromApi == Truthy(api_data)
    IN  PhoneInfo(
          [numero |-> phone, ddd |-> partes.ddd, prefixo |-> partes.prefixo,
           sufixo |-> partes.sufixo,
           operadora |-> IF fromApi THEN api_data.operadora ELSE "Desconhecida",
           cidade |-> IF fromApi THEN api_data.cidade ELSE "Desconhecida",
           uf |-> IF fromApi THEN api_data.uf ELSE "??",
           tipo |-> v.tipo, valido |-> TRUE,
           portabilidade |-> IF fromApi THEN api_data.portabilidade ELSE FALSE,
           consulta_ts |-> t \div 2])

\* the record of a valid number
compose(phone, v, api_data, t) ==
    LET partes == v.partes
        ddd == partes.ddd
        ddd_info == ddd_get(ddd)
        fromApi == Truthy(api_data)
    IN  PhoneInfo(
          [numero |-> phone, ddd |-> ddd, prefixo |-> partes.prefixo,
           sufixo |-> partes.sufixo,
           operadora |-> IF fromApi THEN api_data.operadora
                         ELSE get_operator_by_prefix(ddd,
                                dict_get(partes, "raw_prefixo", partes.prefixo), v.tipo),
           cidade |-> IF fromApi THEN api_data.cidade ELSE ddd_info.regiao[1],
           uf |-> IF fromApi THEN api_data.uf ELSE ddd_info.estado,
           tipo |-> v.tipo, valido |-> TRUE,
           portabilidade |-> IF fromApi THEN api_data.portabilidade ELSE FALSE,
           consulta_ts |-> t \div 2])

invalid_info_keeps_ddd(phone) ==
    PhoneInfo([numero |-> phone, ddd |-> SubSeq(phone, 1, 2), prefixo |-> <<>>,
               sufixo |-> <<>>, valido |-> FALSE, tipo |-> "INVÁLIDO"])

\* the record of an invalid number
invalid_info(phone) ==
    PhoneInfo([numero |-> phone, ddd |-> <<>>, prefixo |-> <<>>, sufixo |-> <<>>,
               valido |-> FALSE, tipo |-> "INVÁLIDO"])

lookup_saves_invalid(c, phone, t, http, io, dur) ==
    LET ld == load(c, phone, t, io)
    IN  IF Truthy(ld.data)
        THEN Outcome(PhoneInfo(ld.data), "cache-hit", 0, ld.cache, t)
        ELSE LET v == validate(phone)
                 api_data == consulta_api_portabilidade(phone, http)
                 info == IF v.valido THEN compose(phone, v, api_data, t + dur)
                         ELSE invalid_info(phone)
             IN  Outcome(info, IF v.valido THEN "fresh-valid" ELSE "fresh-invalid",
                         IF v.valido THEN 1 ELSE 0,
                         save(ld.cache, phone, asdict(info), io),
                         IF v.valido THEN t + dur ELSE t)

\* a lookup that asks the API a second time when the first call gave nothing
lookup_retries(c, phone, t, http, io, dur) ==
    LET ld == load(c, phone, t, io)
    IN  IF Truthy(ld.data)
        THEN Outcome(PhoneInfo(ld.data), "cache-hit", 0, ld.cache, t)
        ELSE LET v == validate(phone)
             IN  IF ~v.valido
                 THEN Outcome(invalid_info(phone), "fresh-invalid", 0, ld.cache, t)
                 ELSE LET first == consulta_api_portabilidade(phone, http)
                          api_data == IF Truthy(first) THEN first
                                      ELSE consulta_api_portabilidade(phone, http)
                          info == compose(phone, v, api_data, t + dur)
                      IN  Outcome(info, "fresh-valid", IF Truthy(first) THEN 1 ELSE 2,
                                  save(ld.cache, phone, asdict(info), io), t + dur)

lookup(c, phone, t, http, io, dur) ==
    LET ld == load(c, phone, t, io)
    IN  IF Truthy(ld.data)
        THEN Outcome(PhoneInfo(ld.data), "cache-hit", 0, ld.cache, t)
        ELSE LET v == validate(phone)
             IN  IF ~v.valido
                 THEN Outcome(invalid_info(phone), "fresh-invalid", 0, ld.cache, t)
                 ELSE LET api_data == consulta_api_portabilidade(phone, http)
                          info == compose(phone, v, api_data, t + dur)
                      IN  Outcome(info, "fresh-valid", 1,
                                  save(ld.cache, phone, asdict(info), io), t + dur)

-----------------------------------------------------------------------------
(* Inputs *)

\* "83993437321" and the like
P_83 == <<"8","3","9","9","3","4","3","7","3","2","1">>

P_11 == <<"1","1","9","8","7","6","5","4","3","2","1">>

\* a mobile number of an area code DDD_DATABASE does not list
P_20 == <<"2","0","9","8","7","6","5","4","3","2","1">>

\* landline numbers as dialled, of 10 and of 11 digits
P_fixo10 == <<"1","1","3","2","3","4","5","6","7","8">>

P_fixo11 == <<"1","1","3","2","3","4","5","6","7","8","9">>

\* "083993437321": P_83 behind the trunk 0
P_trunk12 == <<"0">> \o P_83

\* "08332345678": a 10-digit number behind the trunk 0
P_trunk11 == <<"0","8","3","3","2","3","4","5","6","7","8">>

P_123 == <<"1","2","3">>

\* "(83) 99343-7321"
P_formatted == <<"(","8","3",")"," ","9","9","3","4","3","-","7","3","2","1">>

\* "1<U+0663>987654321": an area code written with a non-ASCII digit
P_unicode == <<"1","U+0663","9","8","7","6","5","4","3","2","1">>

\* the strings the sequential service is asked about
LookupPhones == {P_11, P_20, P_fixo10}

\* what the API does to the sequential service: no answer, an answer without
\* the four fields, an answer with them
LookupHttp ==
    {HttpRaises,
     HttpStatus(200, "object", EmptyDict),
     HttpStatus(200, "object",
        [operadora |-> "CLARO", cidade |-> "Recife", uf |-> "PE", portabilidade |-> TRUE])}

Filler == <<"8","7","6","5","4","3","2","1","0","9","8","7">>

Areas == {<<"1","1">>, <<"8","3">>, <<"0","0">>, <<"2","0">>, <<"0","8">>}

\* validator inputs: an area code, any third digit, and 5 to MaxTail more
\* digits (8 to MaxTail + 3 in all); and the strings above
Inputs ==
    {a \o <<d>> \o SubSeq(Filler, 1, n) : a \in Areas, d \in AsciiDigits, n \in 5..MaxTail}
    \cup {P_83, P_11, P_20, P_fixo10, P_fixo11, P_trunk12, P_trunk11, P_123,
          P_formatted, P_unicode}

\* the clock moves by half a second or by the TTL
TickSteps == {1, 2 * CACHE_TTL}

\* the portability API takes half a second to answer
ApiDurations == {1}

Pending == [pending |-> TRUE]

\* last: the call's number, argument, start time, result and outcome; prior
\* is the content of the argument's file when the call started, after_clear
\* whether it is the first call for a string that had a file when the cache
\* was last cleared, enriched whether the record returned was composed from
\* an answer of the portability API
NoCall == [n |-> 0, phone |-> <<>>, ret |-> None, raised |-> FALSE,
           path |-> "none", api_calls |-> 0, after_clear |-> FALSE, started |-> 0,
           prior |-> None, enriched |-> FALSE]

\* the process starts at a time of day past the epoch by more than the TTL
StartTime == 4 * CACHE_TTL + 1

-----------------------------------------------------------------------------
(* The sequential service: one process, one call at a time, a file system  *)
(* that answers every call.                                                *)

PhonesCached(c) == {p \in LookupPhones \cup Inputs : get_key(p) \in DOMAIN c}

Init ==
    /\ now = StartTime
    /\ cache = NoFiles
    /\ last = NoCall
    /\ returned = <<>>
    /\ cleared = {}
    /\ ncalls = 0
    /\ nticks = 0
    /\ input = <<>>
    /\ normalized = Pending
    /\ validated = Pending
    /\ pc = <<>>
    /\ loc = <<>>

\* whether the record a call returns was composed from an API answer
Enriched(phone, r, http) ==
    IF r.path = "fresh-valid" THEN Truthy(consulta_api_portabilidade(phone, http))
    ELSE IF r.path = "cache-hit" /\ phone \in DOMAIN returned
         THEN returned[phone].enriched
         ELSE FALSE

\* what a call of lookup(phone) leaves behind
Called(phone, r, http) ==
    /\ cache' = r.cache
    /\ now' = r.t_end
    /\ last' = [n |-> ncalls + 1, phone |-> phone, ret |-> r.ret, raised |-> r.raised,
                path |-> r.path, api_calls |-> r.api_calls,
                after_clear |-> phone \in cleared, started |-> now,
                prior |-> dict_get(cache, get_key(phone), None),
                enriched |-> Enriched(phone, r, http)]
    /\ returned' = (phone :> [ret |-> r.ret, enriched |-> Enriched(phone, r, http)]) @@ returned
    /\ cleared' = cleared \ {phone}
    /\ ncalls' = ncalls + 1

Lookup(phone, http, dur) ==
    /\ ncalls < MaxCalls
    /\ Called(phone, lookup(cache, phone, now, http, IoOk, dur), http)
    /\ UNCHANGED <<nticks, input, normalized, validated, pc, loc>>

ClearCache ==
    /\ cache' = clear(cache)
    /\ cleared' = cleared \cup PhonesCached(cache)
    /\ returned' = <<>>
    /\ UNCHANGED <<now, last, ncalls, nticks, input, normalized, validated, pc, loc>>

Tick(d) ==
    /\ nticks < MaxTicks
    /\ now' = now + d
    /\ nticks' = nticks + 1
    /\ UNCHANGED <<cache, last, returned, cleared, ncalls, input, normalized, validated, pc, loc>>

Next ==
    \/ \E phone \in LookupPhones, http \in LookupHttp, dur \in ApiDurations :
          Lookup(phone, http, dur)
    \/ ClearCache
    \/ \E d \in TickSteps : Tick(d)

Spec == Init /\ [][Next]_vars

-----------------------------------------------------------------------------
(* The validator and a lookup session on one input string                  *)

InitInput ==
    /\ input \in Inputs
    /\ now = StartTime
    /\ cache = NoFiles
    /\ last = NoCall
    /\ returned = <<>>
    /\ cleared = {}
    /\ ncalls = 0
    /\ nticks = 0
    /\ normalized = Pending
    /\ validated = Pending
    /\ pc = <<>>
    /\ loc = <<>>

Normalize ==
    /\ normalized = Pending
    /\ normalized' = normalize(input)
    /\ UNCHANGED <<now, cache, last, returned, cleared, ncalls, nticks, input, validated, pc, loc>>

Validate ==
    /\ validated = Pending
    /\ validated' = validate(input)
    /\ UNCHANGED <<now, cache, last, returned, cleared, ncalls, nticks, input, normalized, pc, loc>>

LookupInput(http) ==
    /\ ncalls < MaxSessionCalls
    /\ Called(input, lookup(cache, input, now, http, IoOk, 0), http)
    /\ UNCHANGED <<nticks, input, normalized, validated, pc, loc>>

TickInput ==
    /\ nticks < MaxSessionTicks
    /\ now' = now + 2 * CACHE_TTL + 1
    /\ nticks' = nticks + 1
    /\ UNCHANGED <<cache, last, returned, cleared, ncalls, input, normalized, validated, pc, loc>>

NextInput ==
    \/ Normalize
    \/ Validate
    \/ \E http \in HttpOutcomes : LookupInput(http)
    \/ TickInput

SpecInput == InitInput /\ [][NextInput]_vars

-----------------------------------------------------------------------------
(* Properties of the sequential service *)

\* the string is what normalize makes of it
Canonical(p) == p = normalize(p)

\* the step is a call of lookup(p)
CallOf(p) == ncalls' = ncalls + 1 /\ last'.phone = p

\* C1: a lookup of a canonical number that starts within the TTL of the
\* queriedAt of the record the previous lookup of that number returned, with
\* no clear in between, returns that record, equal in every field, as a cache
\* hit and without recomputing it.
C1_Idempotent ==
    [][\A p \in LookupPhones :
          (/\ CallOf(p)
           /\ Canonical(p)
           /\ p \in DOMAIN returned
           /\ now - 2 * returned[p].ret.consulta_ts <= 2 * CACHE_TTL)
          => /\ last'.ret = returned[p].ret
             /\ last'.path = "cache-hit"
             /\ last'.api_calls = 0
             /\ cache' = cache]_vars

\* a second lookup, started exactly CACHE_TTL after the queriedAt of the
\* first, replayed the record
C1_Witness ==
    /\ last.path = "cache-hit"
    /\ last.n >= 2
    /\ last.ret.valido
    /\ last.started - 2 * last.ret.consulta_ts = 2 * CACHE_TTL

\* C2: a lookup that finds a stored entry older than CACHE_TTL does not
\* replay it: it calls the API, returns a record whose queriedAt is the time
\* of the computation and leaves that record in the place of the stale entry;
\* an entry of age at most CACHE_TTL is replayed and left alone.
C2_Freshness ==
    [][\A p \in LookupPhones :
          (CallOf(p) /\ get_key(p) \in DOMAIN cache)
          => LET e == cache[get_key(p)].value
             IN  IF now - 2 * e.consulta_ts > 2 * CACHE_TTL
                 THEN /\ last'.path = "fresh-valid"
                      /\ last'.api_calls = 1
                      /\ last'.ret.consulta_ts = now' \div 2
                      /\ last'.ret.consulta_ts > e.consulta_ts
                      /\ cache'[get_key(p)] = JsonDoc(asdict(last'.ret))
                 ELSE /\ last'.path = "cache-hit"
                      /\ asdict(last'.ret) = e
                      /\ cache' = cache]_vars

\* a lookup found a stale entry and recomputed
C2_Witness ==
    /\ last.prior # None
    /\ last.path = "fresh-valid"
    /\ last.started - 2 * last.prior.value.consulta_ts > 2 * CACHE_TTL

\* C3: starting from an empty cache, the directory never holds a file for a
\* string that validate rejects, and every file it holds is the record of a
\* valid number (valido true, tipo not INVÁLIDO).
C3_InvalidNeverCached ==
    /\ \A p \in LookupPhones : ~validate(p).valido => get_key(p) \notin DOMAIN cache
    /\ \A k \in DOMAIN cache :
          /\ cache[k].kind = "object"
          /\ cache[k].value.valido = TRUE
          /\ cache[k].value.tipo # "INVÁLIDO"
          /\ \E p \in LookupPhones : k = get_key(p) /\ validate(p).valido

\* an invalid canonical number was looked up while the cache held entries
C3_Witness ==
    /\ last.path = "fresh-invalid"
    /\ Canonical(last.phone)
    /\ DOMAIN cache # {}

\* C4: clearing leaves no file at all, and the first lookup of a number that
\* had an entry when the cache was cleared recomputes: the API is called and
\* queriedAt is the time of the computation; it is never a cache hit.
C4_ClearThenRecompute ==
    [][/\ (cleared' # cleared /\ ncalls' = ncalls) => DOMAIN cache' = {}
       /\ \A p \in cleared : get_key(p) \notin DOMAIN cache
       /\ \A p \in LookupPhones :
             (CallOf(p) /\ p \in cleared)
             => /\ last'.path = "fresh-valid"
                /\ last'.api_calls = 1
                /\ last'.ret.consulta_ts = now' \div 2]_vars

\* a number cached before the clear was looked up after it
C4_Witness ==
    /\ last.after_clear
    /\ last.path = "fresh-valid"

-----------------------------------------------------------------------------
(* Properties of the validator and of a session on one input *)

LandlineLead == {"2", "3", "4", "5"}

\* C7: a canonical number of 11 digits (of 10 digits) whose digit at index 2
\* is one of 2..5 is classified FIXO with an area code of 2 digits, a prefix
\* of 4 (of 3) digits and a suffix of 4 digits, and its lookup returns a
\* valid FIXO record.
C7_LandlineClassified ==
    (/\ Canonical(input)
     /\ Len(input) \in {10, 11}
     /\ input[3] \in LandlineLead)
    => /\ validated # Pending =>
             /\ validated.valido
             /\ validated.tipo = "FIXO"
             /\ Len(validated.partes.ddd) = 2
             /\ Len(validated.partes.prefixo) = (IF Len(input) = 11 THEN 4 ELSE 3)
             /\ Len(validated.partes.sufixo) = 4
       /\ last.n > 0 => (last.ret.valido /\ last.ret.tipo = "FIXO")

\* the digit strings of length 10 or 11
IsDigitString(s) == \A i \in 1..Len(s) : IsDigit(s[i])

\* C8, as stated: normalize("083993437321") is "83993437321",
\* normalize("123") is invalid, and a result is a digit string of length 10
\* or 11.
C8_NormalizeAsStated ==
    normalized # Pending =>
        /\ input = P_trunk12 => P_83 = normalized
        /\ input = P_123 => normalized = None
        /\ normalized # None =>
              (IsDigitString(normalized) /\ Len(normalized) \in {10, 11})

\* C8, amended: normalize("083993437321") is invalid, the string having 12
\* digits (the trunk 0 is dropped from a string of 11 digits only:
\* normalize("08332345678") is "8332345678"); normalize("123") is invalid;
\* and a result is a digit string of length 10 or 11.
C8_Normalize ==
    normalized # Pending =>
        /\ input = P_trunk12 => normalized = None
        /\ input = P_trunk11 => Tail(P_trunk11) = normalized
        /\ input = P_123 => normalized = None
        /\ normalized # None =>
              (IsDigitString(normalized) /\ Len(normalized) \in {10, 11})

\* "083993437321" was normalized
C8_Witness == input = P_trunk12 /\ normalized = None

\* the area code of a string: the first two digits of its canonical form,
\* of its digits if it has none
AreaCodeOf(p) ==
    LET d == IF normalize(p) = None THEN StripNonDigits(p) ELSE normalize(p)
    IN  SubSeq(d, 1, 2)

Unmapped(p) == AreaCodeOf(p) \notin DOMAIN DDD_DATABASE

UnknownRegion(r) ==
    r.operadora = "Desconhecida" /\ r.uf = "??" /\ r.cidade = "Desconhecida"

\* C9, as stated: the record returned for a number of an area code outside
\* DDD_DATABASE has carrier Desconhecida, state ?? and city Desconhecida,
\* whatever the API answered.
C9_UnmappedAsStated ==
    (last.n > 0 /\ Unmapped(last.phone)) => UnknownRegion(last.ret)

\* C9, amended: the record returned for a number of an area code outside
\* DDD_DATABASE has carrier Desconhecida, state ?? and city Desconhecida when
\* the number is invalid or when the API call of the computation that
\* composed the record returned no data, be the record fresh or replayed;
\* a record composed from an API answer carries the answer's fields.
C9_Unmapped ==
    (last.n > 0 /\ Unmapped(last.phone) /\ ~last.enriched) => UnknownRegion(last.ret)

\* a valid number of an unmapped area code was replayed from the cache, its
\* record composed without API data
C9_Witness ==
    /\ last.path = "cache-hit"
    /\ Unmapped(last.phone)
    /\ last.ret.valido
    /\ ~last.enriched

\* C10: every record lookup returns has valido = (tipo # INVÁLIDO); an
\* invalid one has empty ddd, prefixo and sufixo; a valid one has a ddd of 2
\* digits and prefixo and sufixo of 4 and 4 digits (MÓVEL, and FIXO of an
\* 11-digit number) or of 3 and 4 digits (FIXO of a 10-digit number).
C10_RecordInvariant ==
    last.n > 0 =>
        LET r == last.ret
        IN  /\ r.valido = (r.tipo # "INVÁLIDO")
            /\ r.tipo \in {"MÓVEL", "FIXO", "INVÁLIDO"}
            /\ ~r.valido => (r.ddd = <<>> /\ r.prefixo = <<>> /\ r.sufixo = <<>>)
            /\ r.valido =>
                  /\ Len(r.ddd) = 2 /\ IsDigitString(r.ddd)
                  /\ IsDigitString(r.prefixo) /\ IsDigitString(r.sufixo)
                  /\ Len(r.sufixo) = 4
                  /\ Len(r.prefixo) =
                        (IF r.tipo = "FIXO" /\ Len(normalize(r.numero)) = 10 THEN 3 ELSE 4)

\* a valid record was replayed from the cache
C10_Witness ==
    /\ last.path = "cache-hit"
    /\ last.ret.valido
    /\ last.ret.tipo = "MÓVEL"

-----------------------------------------------------------------------------
(* The service on a file system that fails and a directory that other      *)
(* programs write to                                                       *)

\* what the files of CACHE_DIR may hold that lookup did not write: text that
\* is no JSON, a JSON array, the object {}, an object with a current
\* consulta_ts and nothing else, a record with one more key than PhoneInfo
\* has fields
ForeignFiles(t) ==
    {TornFile,
     JsonArray,
     JsonDoc(EmptyDict),
     JsonDoc([consulta_ts |-> t \div 2]),
     JsonDoc([versao |-> 2] @@ asdict(compose(P_11, validate(P_11), None, t)))}

FaultPhones == {P_11, P_fixo10}

InitFault ==
    /\ now = StartTime
    /\ cache = NoFiles
    /\ last = NoCall
    /\ returned = <<>>
    /\ cleared = {}
    /\ ncalls = 0
    /\ nticks = 0
    /\ input = <<>>
    /\ normalized = Pending
    /\ validated = Pending
    /\ pc = <<>>
    /\ loc = <<>>

LookupIo(phone, http, io) ==
    /\ ncalls < MaxFaultCalls
    /\ Called(phone, lookup(cache, phone, now, http, io, 0), http)
    /\ UNCHANGED <<nticks, input, normalized, validated, pc, loc>>

\* another program leaves a file in CACHE_DIR
BackendWrite(phone, blob) ==
    /\ get_key(phone) \notin DOMAIN cache
    /\ cache' = (get_key(phone) :> blob) @@ cache
    /\ UNCHANGED <<now, last, returned, cleared, ncalls, nticks, input, normalized,
                   validated, pc, loc>>

TickFault ==
    /\ nticks < MaxFaultTicks
    /\ now' = now + 2 * CACHE_TTL + 1
    /\ nticks' = nticks + 1
    /\ UNCHANGED <<cache, last, returned, cleared, ncalls, input, normalized, validated, pc, loc>>

NextFault ==
    \/ \E phone \in FaultPhones, http \in HttpOutcomes, io \in IoOutcomes :
          LookupIo(phone, http, io)
    \/ \E phone \in FaultPhones, blob \in ForeignFiles(now) : BackendWrite(phone, blob)
    \/ TickFault

SpecFault == InitFault /\ [][NextFault]_vars

\* C5: whatever the input, the state of the directory, the file system and
\* the API do, lookup returns a PhoneInfo and raises nothing.
C5_NeverRaises ==
    last.n > 0 => (~last.raised /\ DOMAIN last.ret = PhoneInfoFields)

-----------------------------------------------------------------------------
(* Concurrent lookups: processes and request threads that share CACHE_DIR, *)
(* each inside its own call of lookup, one file-system call at a time      *)

Workers == {"w1", "w2"}

\* "21987654321": Rio de Janeiro, every string of its record ASCII
P_21 == <<"2","1","9","8","7","6","5","4","3","2","1">>

\* two mobile numbers and a landline number
ConcPhones == {P_21, P_11, P_fixo10}

ConcHttp ==
    {HttpRaises,
     HttpStatus(200, "object",
        [operadora |-> "CLARO", cidade |-> "Recife", uf |-> "PE", portabilidade |-> TRUE])}

\* the characters of json.dump's text that differ between two records of one
\* number composed within the same day (ASCII strings, one byte each)
JsonLen(d) ==
    Len(d.operadora) + Len(d.cidade) + Len(d.uf) + (IF d.portabilidade THEN 4 ELSE 5)

\* a file holding the head of one text and the tail of a longer one
MixedFile(n) == [kind |-> "torn", value |-> [size |-> n]]

Size(blob) ==
    IF blob.kind = "object" THEN JsonLen(blob.value) ELSE dict_get(blob.value, "size", 0)

\* the text of doc written from offset 0 into a file holding old, by a
\* writer that opened the file before old was written
Overwrite(old, doc) ==
    IF Size(old) > Size(doc) THEN MixedFile(Size(old)) ELSE doc

\* the locals of a call, and whether a step of it has changed the directory
IdleLoc == [phone |-> <<>>, http |-> HttpRaises, data |-> None, info |-> None,
            ret |-> None, path |-> "none", touched |-> FALSE]

InitConc ==
    /\ now = StartTime
    /\ cache = NoFiles
    /\ last = NoCall
    /\ returned = <<>>
    /\ cleared = {}
    /\ ncalls = 0
    /\ nticks = 0
    /\ input = <<>>
    /\ normalized = Pending
    /\ validated = Pending
    /\ pc = [w \in Workers |-> "idle"]
    /\ loc = [w \in Workers |-> IdleLoc]

Goto(w, label, l) ==
    /\ pc' = [pc EXCEPT ![w] = label]
    /\ loc' = [loc EXCEPT ![w] = l]

\* lookup(phone) is entered
Start(w, phone, http) ==
    /\ pc[w] = "idle"
    /\ ncalls < MaxConcCalls
    /\ ncalls' = ncalls + 1
    /\ Goto(w, "load", [IdleLoc EXCEPT !.phone = phone, !.http = http])
    /\ UNCHANGED <<now, cache, last, returned, cleared, nticks, input, normalized, validated>>

\* CacheManager.load up to its return or its unlink: the file is looked for,
\* read and parsed, and its age compared to CACHE_TTL
LoadRead(w) ==
    /\ pc[w] = "load"
    /\ LET k == get_key(loc[w].phone)
       IN  IF k \notin DOMAIN cache \/ cache[k].kind # "object"
           THEN Goto(w, "validate", loc[w])
           ELSE IF expired(now, dict_get(cache[k].value, "consulta_ts", 0))
                THEN Goto(w, "unlink", loc[w])
                ELSE Goto(w, "hit", [loc[w] EXCEPT !.data = cache[k].value])
    /\ UNCHANGED <<now, cache, last, returned, cleared, ncalls, nticks, input, normalized, validated>>

\* cache_file.unlink(): the file of that name is removed, whoever wrote it;
\* no file of that name raises FileNotFoundError, which load swallows
LoadUnlink(w) ==
    /\ pc[w] = "unlink"
    /\ cache' = Unlink(cache, get_key(loc[w].phone))
    /\ Goto(w, "validate", [loc[w] EXCEPT !.touched = @ \/ cache' # cache])
    /\ UNCHANGED <<now, last, returned, cleared, ncalls, nticks, input, normalized, validated>>

\* if cached: return PhoneInfo(**cached)
Hit(w) ==
    /\ pc[w] = "hit"
    /\ IF Truthy(loc[w].data)
       THEN Goto(w, "return", [loc[w] EXCEPT !.ret = PhoneInfo(loc[w].data), !.path = "cache-hit"])
       ELSE Goto(w, "validate", loc[w])
    /\ UNCHANGED <<now, cache, last, returned, cleared, ncalls, nticks, input, normalized, validated>>

\* validate(phone), and the record of an invalid number
ValidateStep(w) ==
    /\ pc[w] = "validate"
    /\ IF validate(loc[w].phone).valido
       THEN Goto(w, "api", loc[w])
       ELSE Goto(w, "return", [loc[w] EXCEPT !.ret = invalid_info(loc[w].phone),
                                             !.path = "fresh-invalid"])
    /\ UNCHANGED <<now, cache, last, returned, cleared, ncalls, nticks, input, normalized, validated>>

\* the API call, and the record composed at the time it ends
ApiCall(w) ==
    /\ pc[w] = "api"
    /\ LET l == loc[w]
           info == compose(l.phone, validate(l.phone),
                           consulta_api_portabilidade(l.phone, l.http), now)
       IN  Goto(w, "save_open", [l EXCEPT !.info = info, !.ret = info, !.path = "fresh-valid"])
    /\ UNCHANGED <<now, cache, last, returned, cleared, ncalls, nticks, input, normalized, validated>>

\* CacheManager.save, cache_file.open('w'): the file is created, or emptied
SaveOpen(w) ==
    /\ pc[w] = "save_open"
    /\ cache' = Truncate(cache, get_key(loc[w].phone))
    /\ Goto(w, "save_write", [loc[w] EXCEPT !.touched = @ \/ cache' # cache])
    /\ UNCHANGED <<now, last, returned, cleared, ncalls, nticks, input, normalized, validated>>

\* CacheManager.save, json.dump and the close that flushes its text: written
\* from offset 0 into the file opened; nothing of it is seen if the file was
\* unlinked since
SaveWrite(w) ==
    /\ pc[w] = "save_write"
    /\ LET k == get_key(loc[w].phone)
       IN  cache' = IF k \in DOMAIN cache
                    THEN [cache EXCEPT ![k] = Overwrite(cache[k], JsonDoc(asdict(loc[w].info)))]
                    ELSE cache
    /\ Goto(w, "return", [loc[w] EXCEPT !.touched = @ \/ cache' # cache])
    /\ UNCHANGED <<now, last, returned, cleared, ncalls, nticks, input, normalized, validated>>

\* lookup returns: the worker is free for its next call
Return(w) ==
    /\ pc[w] = "return"
    /\ Goto(w, "idle", IdleLoc)
    /\ UNCHANGED <<now, cache, last, returned, cleared, ncalls, nticks, input, normalized, validated>>

\* the caller abandons the call: its process is killed, wherever it is
Abandon(w) ==
    /\ pc[w] \notin {"idle", "return"}
    /\ Goto(w, "idle", IdleLoc)
    /\ UNCHANGED <<now, cache, last, returned, cleared, ncalls, nticks, input, normalized, validated>>

TickConc ==
    /\ nticks < MaxConcTicks
    /\ now' = now + 2 * CACHE_TTL + 1
    /\ nticks' = nticks + 1
    /\ UNCHANGED <<cache, last, returned, cleared, ncalls, input, normalized, validated, pc, loc>>

NextConc ==
    \/ \E w \in Workers, phone \in ConcPhones, http \in ConcHttp : Start(w, phone, http)
    \/ \E w \in Workers : LoadRead(w)
    \/ \E w \in Workers : LoadUnlink(w)
    \/ \E w \in Workers : Hit(w)
    \/ \E w \in Workers : ValidateStep(w)
    \/ \E w \in Workers : ApiCall(w)
    \/ \E w \in Workers : SaveOpen(w)
    \/ \E w \in Workers : SaveWrite(w)
    \/ \E w \in Workers : Return(w)
    \/ \E w \in Workers : Abandon(w)
    \/ TickConc

SpecConc == InitConc /\ [][NextConc]_vars

\* C6: the file of a number is at every moment absent or one complete record
\* of a valid number, whatever the interleaving of the lookups and wherever a
\* lookup is abandoned.
C6_WholeEntries ==
    \A k \in DOMAIN cache :
        /\ cache[k].kind = "object"
        /\ DOMAIN cache[k].value = PhoneInfoFields
        /\ cache[k].value.valido = TRUE

-----------------------------------------------------------------------------
(* The API call and the fallback, in a lookup session on one input string  *)

\* C11: a call of lookup ends as a cache hit, as the record of an invalid
\* number or as a freshly composed record of a valid number; it asks the
\* portability API once in the last case, whatever the API answers, and not
\* at all in the other two.
C11_SingleEnrichment ==
    last.n > 0 =>
        /\ last.path \in {"cache-hit", "fresh-valid", "fresh-invalid"}
        /\ last.api_calls <= 1
        /\ last.path \in {"cache-hit", "fresh-invalid"} => last.api_calls = 0
        /\ last.path = "fresh-valid" => last.api_calls = 1

\* a lookup of a valid number asked the API, got nothing and returned
C11_Witness ==
    /\ last.path = "fresh-valid"
    /\ last.api_calls = 1
    /\ last.ret.valido
    /\ ~last.enriched

\* the prefixes an input string offers to get_operator_by_prefix
PrefixesOf(s) == {SubSeq(s, 3, n) : n \in 3..Len(s)}

-----------------------------------------------------------------------------
(* Properties of concurrent lookups *)

\* the file of a number, None when there is none
Entry(c, phone) == dict_get(c, get_key(phone), None)

\* the step is one of worker w's call
StepOf(w) == pc'[w] # pc[w]

\* the argument of the call worker w takes the step in
PhoneOf(w) == IF pc[w] = "idle" THEN loc'[w].phone ELSE loc[w].phone

\* C13: whatever the interleaving, a step of a lookup of one number leaves
\* the file of every other number as it was (not created, not changed, not
\* removed), the keys of distinct numbers being distinct; and a lookup that
\* returns as a cache hit or with the record of an invalid number has changed
\* nothing in the directory.
C13_DistinctKeys ==
    [][\A w \in Workers :
          StepOf(w) =>
             /\ \A q \in ConcPhones \ {PhoneOf(w)} : Entry(cache', q) = Entry(cache, q)
             /\ \A k \in (DOMAIN cache \cup DOMAIN cache') \ {get_key(PhoneOf(w))} :
                   dict_get(cache', k, None) = dict_get(cache, k, None)
             /\ (pc'[w] = "return" /\ loc'[w].path \in {"cache-hit", "fresh-invalid"})
                   => /\ ~loc'[w].touched
                      /\ cache' = cache]_vars

\* one worker returns a cache hit for one number while the other has just
\* written the record of another number, each file a complete record
C13_Witness ==
    \E w, x \in Workers :
        /\ pc[w] = "return" /\ loc[w].path = "cache-hit"
        /\ pc[x] = "return" /\ loc[x].path = "fresh-valid" /\ loc[x].touched
        /\ loc[w].phone # loc[x].phone
        /\ Entry(cache, loc[w].phone) = JsonDoc(asdict(loc[w].ret))
        /\ Entry(cache, loc[x].phone) = JsonDoc(asdict(loc[x].ret))

\* the step is the cache_file.unlink() of worker w's load
UnlinkBy(w) == pc[w] = "unlink" /\ pc'[w] = "validate"

\* C14: whatever the interleaving of the lookups of one number, the unlink
\* of load removes only an expired entry: the file it removes is never a
\* record whose age is within CACHE_TTL, such as the record another lookup
\* wrote after this one read the stale entry.
C14_UnlinkOnlyExpired ==
    [][\A w \in Workers :
          UnlinkBy(w) =>
             LET e == Entry(cache, loc[w].phone)
             IN  (e # None /\ e.kind = "object")
                    => expired(now, dict_get(e.value, "consulta_ts", 0))]_vars

====
